---- MODULE Spec2Model ----
(***************************************************************************)
(* baikal.core.model.Model: graph assembly (_build_graph), required-step   *)
(* resolution (_get_required_steps), data normalisation and the fit and    *)
(* predict execution loops with their call-scoped cache.                   *)
(*                                                                         *)
(* Steps and data slots (Data) are identified by strings.  A step has an   *)
(* ordered list of input slots, an ordered list of output slots it owns, a *)
(* name and a set of capabilities (fit / predict / transform).  Step, Data *)
(* DiGraph and listify live outside model.py; what the model needs of them *)
(* follows their contract in the specification (sections 3, 4 and 6).      *)
(***************************************************************************)
EXTENDS Integers, Sequences, FiniteSets, TLC

VARIABLES
    step_inputs,    \* step -> sequence of input slots            (Step.inputs)
    step_outputs,   \* step -> sequence of output slots           (Step.outputs)
    step_name,      \* step -> name                               (Step.name)
    caps,           \* step -> subset of {"fit","predict","transform"}
    fitted,         \* step -> number of times its fit has run    (the step's own state)
    pc,             \* "new" | "failed" | "idle" | "done"
    model,          \* self.inputs, self.outputs, self._graph, self._steps
    nfits,          \* number of fit calls made
    call,           \* the last constructor / fit / predict invocation and what it did
    prev            \* the predict invocation the caller compares the last one with

vars == <<step_inputs, step_outputs, step_name, caps, fitted, nfits, pc, model, call, prev>>

(***************************************************************************)
(* Bounds of the model.                                                    *)
(***************************************************************************)
\* Payloads a caller passes are numbered 0..MaxVal.
MaxVal == 1
\* fit is called at most MaxFits times in one behaviour.
MaxFits == 1
\* Depth at which the interpreter gives up a recursion (RecursionError).
RecursionLimit == 6

(***************************************************************************)
(* Sequence helpers.                                                       *)
(***************************************************************************)
Range(s) == {s[i] : i \in DOMAIN s}

Contains(s, x) == \E i \in DOMAIN s : s[i] = x

IndexOf(s, x) == CHOOSE i \in DOMAIN s : s[i] = x /\ \A j \in 1..(i - 1) : s[j] # x

NoDup(s) == \A i, j \in DOMAIN s : s[i] = s[j] => i = j

RECURSIVE Flatten(_)
Flatten(ss) == IF ss = <<>> THEN <<>> ELSE Head(ss) \o Flatten(Tail(ss))

\* All sequences without repetition over S of length lo..hi.
SeqsNoDup(S, lo, hi) ==
    UNION {{q \in [1..n -> S] : NoDup(q)} : n \in lo..hi}

\* The elements of set S in the order they have in sequence order.
OrderedBy(order, S) == SelectSeq(order, LAMBDA x : x \in S)

\* The entries of s, each at its first place only.
Distinct(s) ==
    LET firsts == SelectSeq([i \in DOMAIN s |-> i],
                            LAMBDA i : \A j \in 1..(i - 1) : s[j] # s[i])
    IN [k \in DOMAIN firsts |-> s[firsts[k]]]

(***************************************************************************)
(* The step structures the behaviours start from.  Each is what a caller   *)
(* builds before constructing a Model: steps in creation order, each wired *)
(* to the slots it consumes and owning the slots it emits.                 *)
(***************************************************************************)
\* Capabilities used below.
Estimator == {"fit", "predict"}

Transformer == {"fit", "transform"}

\* The diamond of the specification: A -> x, B(x) -> y, C(x) -> z, D(y, z) -> w.
Diamond ==
    [steps |-> <<"A", "B", "C", "D">>,
     ins   |-> [A |-> <<>>, B |-> <<"x">>, C |-> <<"x">>, D |-> <<"y", "z">>],
     outs  |-> [A |-> <<"x">>, B |-> <<"y">>, C |-> <<"z">>, D |-> <<"w">>],
     caps  |-> [A |-> {}, B |-> Transformer, C |-> {"transform"}, D |-> Estimator]]

\* A step with two outputs in mid-graph: B(x) -> (y, y2), C(y, y2) -> z, and
\* a last step D(z) -> w that can neither predict nor transform.
Sibling ==
    [steps |-> <<"A", "B", "C", "D">>,
     ins   |-> [A |-> <<>>, B |-> <<"x">>, C |-> <<"y", "y2">>, D |-> <<"z">>],
     outs  |-> [A |-> <<"x">>, B |-> <<"y", "y2">>, C |-> <<"z">>, D |-> <<"w">>],
     caps  |-> [A |-> {}, B |-> {"fit", "predict", "transform"}, C |-> {"predict"},
                D |-> {"fit"}]]

\* A source step with two outputs: A -> (x1, x2), B(x1) -> y, C(x2, y) -> z.
TwoOutSource ==
    [steps |-> <<"A", "B", "C">>,
     ins   |-> [A |-> <<>>, B |-> <<"x1">>, C |-> <<"x2", "y">>],
     outs  |-> [A |-> <<"x1", "x2">>, B |-> <<"y">>, C |-> <<"z">>],
     caps  |-> [A |-> {}, B |-> Estimator, C |-> Estimator]]

\* Two sources merging, with steps created out of dependency order:
\* S -> u, A -> x, B(x, u) -> y, C(y, x) -> z.
Merge ==
    [steps |-> <<"S", "A", "B", "C">>,
     ins   |-> [S |-> <<>>, A |-> <<>>, B |-> <<"x", "u">>, C |-> <<"y", "x">>],
     outs  |-> [S |-> <<"u">>, A |-> <<"x">>, B |-> <<"y">>, C |-> <<"z">>],
     caps  |-> [S |-> {}, A |-> {}, B |-> {"predict", "transform"}, C |-> Transformer]]

\* Step structures with a dependency cycle (a step called again on a slot
\* computed from its own output).
CycleTwo ==
    [steps |-> <<"B", "C">>,
     ins   |-> [B |-> <<"z">>, C |-> <<"y">>],
     outs  |-> [B |-> <<"y">>, C |-> <<"z">>],
     caps  |-> [B |-> Estimator, C |-> Estimator]]

\* A cycle B -> C -> B fed by a source, beside a step D(x) -> w off the cycle.
CycleEntry ==
    [steps |-> <<"A", "B", "C", "D">>,
     ins   |-> [A |-> <<>>, B |-> <<"x", "z">>, C |-> <<"y">>, D |-> <<"x">>],
     outs  |-> [A |-> <<"x">>, B |-> <<"y">>, C |-> <<"z">>, D |-> <<"w">>],
     caps  |-> [A |-> {}, B |-> Estimator, C |-> Estimator, D |-> Estimator]]

\* A step consuming its own output.
CycleSelf ==
    [steps |-> <<"A", "B">>,
     ins   |-> [A |-> <<>>, B |-> <<"x", "y">>],
     outs  |-> [A |-> <<"x">>, B |-> <<"y">>],
     caps  |-> [A |-> {}, B |-> Estimator]]

Shapes == {Diamond, Sibling, TwoOutSource, Merge, CycleTwo, CycleEntry, CycleSelf}

StepsOf(shape) == Range(shape.steps)

\* Names: every step named after itself; the last step named like the
\* first; the third like the first and the fourth like the second (two
\* duplicated names); or every step named like the first.
Namings(shape) ==
    LET n == Len(shape.steps)
        own == [s \in StepsOf(shape) |-> s]
        named(i, j) == [own EXCEPT ![shape.steps[i]] = shape.steps[j]]
    IN {own, named(n, 1)} \cup
       (IF n >= 4 THEN {[named(3, 1) EXCEPT ![shape.steps[4]] = shape.steps[2]]}
        ELSE {[s \in StepsOf(shape) |-> shape.steps[1]]})

(***************************************************************************)
(* Step and Data accessors.                                                *)
(***************************************************************************)
Steps == DOMAIN step_inputs

Slots == UNION {Range(step_outputs[s]) : s \in Steps}

\* The slots in creation order.
AllSlots ==
    LET created == SelectSeq(<<"S", "A", "B", "C", "D">>, LAMBDA s : s \in Steps)
    IN Flatten([i \in DOMAIN created |-> step_outputs[created[i]]])

\* Data.step: the one step that emits the slot.
Producer(slot) == CHOOSE s \in Steps : Contains(step_outputs[s], slot)

\* Data.name: unique as long as step names are (the owning step's name and
\* the position among its outputs).
DataName(slot) ==
    <<step_name[Producer(slot)], IndexOf(step_outputs[Producer(slot)], slot)>>

(***************************************************************************)
(* DiGraph: nodes in insertion order, edges as (from, to) pairs.           *)
(***************************************************************************)
EmptyGraph == [nodes |-> <<>>, edges |-> {}]

\* Adding a node twice leaves the graph as it is.
add_node(graph, node) ==
    IF Contains(graph.nodes, node) THEN graph
    ELSE [graph EXCEPT !.nodes = Append(@, node)]

add_edge(graph, from, to) == [graph EXCEPT !.edges = @ \cup {<<from, to>>}]

in_degree(graph, node) == Cardinality({e \in graph.edges : e[2] = node})

\* Every order of the nodes in which each edge points forward; none exists
\* exactly when the graph has a cycle.  topological_sort returns one of
\* them, always the same one for the same graph.
TopologicalOrders(graph) ==
    {q \in SeqsNoDup(Range(graph.nodes), Len(graph.nodes), Len(graph.nodes)) :
        \A e \in graph.edges : e[1] # e[2] /\ IndexOf(q, e[1]) < IndexOf(q, e[2])}

(***************************************************************************)
(* Model._build_graph.                                                     *)
(***************************************************************************)
\* collect_steps_from: a pre-order walk with no visited set; the walk state
\* is the graph so far and whether the recursion limit was hit.
RECURSIVE collect_steps_from(_, _, _)
RECURSIVE collect_inputs(_, _, _, _)
collect_steps_from(output, walk, depth) ==
    IF walk.overflow THEN walk
    ELSE IF depth > RecursionLimit THEN [walk EXCEPT !.overflow = TRUE]
    ELSE collect_inputs(step_inputs[Producer(output)], 1,
                        [walk EXCEPT !.graph = add_node(@, Producer(output))], depth)

collect_inputs(ins, i, walk, depth) ==
    IF i > Len(ins) \/ walk.overflow THEN walk
    ELSE collect_inputs(ins, i + 1, collect_steps_from(ins[i], walk, depth + 1), depth)

RECURSIVE CollectAll(_, _, _)
CollectAll(outputs, i, walk) ==
    IF i > Len(outputs) \/ walk.overflow THEN walk
    ELSE CollectAll(outputs, i + 1, collect_steps_from(outputs[i], walk, 1))

\* The edges of a step added from the step to the producers of its inputs.
RECURSIVE AddEdgesOfReversed(_, _, _)
AddEdgesOfReversed(graph, step, i) ==
    IF i > Len(step_inputs[step]) THEN graph
    ELSE AddEdgesOfReversed(add_edge(graph, step, Producer(step_inputs[step][i])), step, i + 1)

\* "for step in graph: for input in step.inputs: graph.add_edge(input.step, step)"
RECURSIVE AddEdgesOf(_, _, _)
AddEdgesOf(graph, step, i) ==
    IF i > Len(step_inputs[step]) THEN graph
    ELSE AddEdgesOf(add_edge(graph, Producer(step_inputs[step][i]), step), step, i + 1)

RECURSIVE AddEdges(_, _)
AddEdges(graph, n) ==
    IF n > Len(graph.nodes) THEN graph
    ELSE AddEdges(AddEdgesOf(graph, graph.nodes[n], 1), n + 1)

\* seen_names: how many nodes of the graph carry the name.
NameCount(graph, name) ==
    Cardinality({i \in DOMAIN graph.nodes : step_name[graph.nodes[i]] = name})

\* duplicated_names: the keys of seen_names, in the order they were first
\* seen, whose count is above one.
DuplicatedNames(graph) ==
    LET firsts == SelectSeq([i \in DOMAIN graph.nodes |-> i],
                    LAMBDA i : \A j \in 1..(i - 1) :
                        step_name[graph.nodes[j]] # step_name[graph.nodes[i]])
        names == [k \in DOMAIN firsts |-> step_name[graph.nodes[firsts[k]]]]
    IN SelectSeq(names, LAMBDA nm : NameCount(graph, nm) > 1)

\* The whole of _build_graph for the declared outputs: the graph, or the
\* error that ends the constructor.
build_graph(outputs) ==
    LET walk == CollectAll(outputs, 1, [graph |-> EmptyGraph, overflow |-> FALSE])
        graph == AddEdges(walk.graph, 1)
    IN IF walk.overflow
       THEN [err |-> "RecursionError", names |-> <<>>, graph |-> EmptyGraph]
       ELSE IF DuplicatedNames(graph) # <<>>
       THEN [err |-> "DuplicateStepName", names |-> DuplicatedNames(graph),
             graph |-> EmptyGraph]
       ELSE [err |-> "none", names |-> <<>>, graph |-> graph]

(***************************************************************************)
(* Model._get_required_steps.                                              *)
(***************************************************************************)
\* backtrack(output): the steps to add and the supplied slots met on the
\* way.  inputs is the set of available slots, all_required the steps the
\* earlier desired outputs already added; overflow tells that the recursion
\* limit was hit.
RECURSIVE backtrack(_, _, _, _)
RECURSIVE backtrack_inputs(_, _, _, _, _, _)
\* backtrack stopping also at a slot whose producer made a supplied slot.
backtrack_stopping_at_siblings(output, inputs, all_required, depth) ==
    IF depth > RecursionLimit THEN [required |-> {}, found |-> {}, overflow |-> TRUE]
    ELSE IF output \in inputs THEN [required |-> {}, found |-> {output}, overflow |-> FALSE]
    ELSE IF \E slot \in inputs : Producer(slot) = Producer(output)
    THEN [required |-> {}, found |-> {}, overflow |-> FALSE]
    ELSE IF Producer(output) \in all_required
    THEN [required |-> {}, found |-> {}, overflow |-> FALSE]
    ELSE backtrack_inputs(step_inputs[Producer(output)], 1, inputs, all_required,
                          [required |-> {Producer(output)}, found |-> {}, overflow |-> FALSE],
                          depth)

backtrack(output, inputs, all_required, depth) ==
    IF depth > RecursionLimit THEN [required |-> {}, found |-> {}, overflow |-> TRUE]
    ELSE IF output \in inputs THEN [required |-> {}, found |-> {output}, overflow |-> FALSE]
    ELSE IF Producer(output) \in all_required
    THEN [required |-> {}, found |-> {}, overflow |-> FALSE]
    ELSE backtrack_inputs(step_inputs[Producer(output)], 1, inputs, all_required,
                          [required |-> {Producer(output)}, found |-> {}, overflow |-> FALSE],
                          depth)

backtrack_inputs(ins, i, inputs, all_required, acc, depth) ==
    IF i > Len(ins) \/ acc.overflow THEN acc
    ELSE LET sub == backtrack(ins[i], inputs, all_required, depth + 1)
         IN backtrack_inputs(ins, i + 1, inputs, all_required,
                [required |-> acc.required \cup sub.required,
                 found |-> acc.found \cup sub.found,
                 overflow |-> sub.overflow], depth)

\* The loop keeping of inputs_found only what the last desired output met.
RECURSIVE BacktrackAllLastFound(_, _, _, _)
BacktrackAllLastFound(outputs, i, inputs, acc) ==
    IF i > Len(outputs) \/ acc.overflow THEN acc
    ELSE LET sub == backtrack(outputs[i], inputs, acc.required, 1)
         IN BacktrackAllLastFound(outputs, i + 1, inputs,
                [required |-> acc.required \cup sub.required,
                 found |-> sub.found,
                 overflow |-> sub.overflow])

\* The loop keeping only the steps the last desired output added.
RECURSIVE BacktrackAllLastRequired(_, _, _, _)
BacktrackAllLastRequired(outputs, i, inputs, acc) ==
    IF i > Len(outputs) \/ acc.overflow THEN acc
    ELSE LET sub == backtrack(outputs[i], inputs, acc.required, 1)
         IN BacktrackAllLastRequired(outputs, i + 1, inputs,
                [required |-> sub.required,
                 found |-> acc.found \cup sub.found,
                 overflow |-> sub.overflow])

\* "for output in outputs: all_required_steps |= backtrack(output)"
RECURSIVE BacktrackAll(_, _, _, _)
BacktrackAll(outputs, i, inputs, acc) ==
    IF i > Len(outputs) \/ acc.overflow THEN acc
    ELSE LET sub == backtrack(outputs[i], inputs, acc.required, 1)
         IN BacktrackAll(outputs, i + 1, inputs,
                [required |-> acc.required \cup sub.required,
                 found |-> acc.found \cup sub.found,
                 overflow |-> sub.overflow])

\* The warnings issued: one per entry of inputs that is not in inputs_found.
UnusedWarnings(inputs, found) == SelectSeq(inputs, LAMBDA slot : slot \notin found)

\* missing_inputs: the outputs of every required step of in-degree zero.
MissingInputs(graph, required) ==
    Flatten([k \in DOMAIN OrderedBy(graph.nodes, required) |->
        LET step == OrderedBy(graph.nodes, required)[k] IN
        IF in_degree(graph, step) = 0 THEN step_outputs[step] ELSE <<>>])

\* The required steps in reverse topological order.
RequiredInReverse(all_steps_sorted, required) ==
    LET kept == SelectSeq(all_steps_sorted, LAMBDA step : step \in required)
    IN [i \in DOMAIN kept |-> kept[Len(kept) + 1 - i]]

\* The whole topological order, required or not.
RequiredAllSorted(all_steps_sorted, required) == all_steps_sorted

\* The list returned: the topological order filtered by membership.
RequiredInOrder(all_steps_sorted, required) ==
    SelectSeq(all_steps_sorted, LAMBDA step : step \in required)

\* _get_required_steps(graph, inputs, outputs) with all_steps_sorted the
\* order graph.topological_sort() gives ("cyclic" when it raises).
get_required_steps(graph, all_steps_sorted, inputs, outputs) ==
    LET bt == BacktrackAll(outputs, 1, Range(inputs),
                           [required |-> {}, found |-> {}, overflow |-> FALSE])
        warned == UnusedWarnings(inputs, bt.found)
        none == [err |-> "none", names |-> <<>>, steps |-> <<>>, warned |-> <<>>,
                 found |-> {}, required |-> {}]
    IN IF all_steps_sorted = <<"cyclic">>
       THEN [none EXCEPT !.err = "CyclicGraph"]
       ELSE IF bt.overflow
       THEN [none EXCEPT !.err = "RecursionError"]
       ELSE IF \E step \in bt.required : ~Contains(graph.nodes, step)
       THEN [none EXCEPT !.err = "NodeNotFound", !.warned = warned,
                         !.found = bt.found, !.required = bt.required]
       ELSE IF MissingInputs(graph, bt.required) # <<>>
       THEN [none EXCEPT !.err = "MissingInput", !.warned = warned,
                         !.names = MissingInputs(graph, bt.required),
                         !.found = bt.found, !.required = bt.required]
       ELSE [none EXCEPT !.warned = warned, !.found = bt.found,
                         !.required = bt.required,
                         !.steps = RequiredInOrder(all_steps_sorted, bt.required)]

(***************************************************************************)
(* Values.  What a step computes is not interpreted: a value records who   *)
(* made it, from which arguments and in which training state, so two       *)
(* values are equal exactly when they were computed the same way.          *)
(***************************************************************************)
\* The i-th array a caller passes, with payload v.
InVal(i, v) == [kind |-> "in", by |-> "caller", idx |-> i, state |-> v, args |-> <<>>]

\* Python's None.
NoneVal == [kind |-> "none", by |-> "caller", idx |-> 0, state |-> 0, args |-> <<>>]

\* What step.predict(*Xs) or step.transform(*Xs) returns, listified: one
\* value per declared output.
StepResult(step, op, trained, Xs) ==
    [k \in DOMAIN step_outputs[step] |->
        [kind |-> op, by |-> step, idx |-> k, state |-> trained, args |-> Xs]]

EmptyDict == [slot \in {} |-> NoneVal]

\* dict(zip(keys, values)): a later pair overwrites an earlier one.
DictOf(keys, values) ==
    [slot \in {keys[i] : i \in 1..(IF Len(keys) < Len(values) THEN Len(keys) ELSE Len(values))} |->
        values[CHOOSE i \in DOMAIN keys :
                  /\ i <= Len(values) /\ keys[i] = slot
                  /\ \A j \in DOMAIN keys : (j <= Len(values) /\ keys[j] = slot) => j <= i]]

\* d.update(e)
Update(d, e) == e @@ d

(***************************************************************************)
(* Data as the caller gives it, and its normalisation.                     *)
(***************************************************************************)
\* A key of a caller's dictionary, or an entry of a requested-outputs list:
\* a Data instance or a name.
DataKey(slot) == [by |-> "data", slot |-> slot, name |-> <<"", 0>>]

NameKey(name) == [by |-> "name", slot |-> "", name |-> name]

UnknownName == <<"?", 1>>

\* Positional data: a list of arrays.
GivenList(values) == [form |-> "list", keys |-> <<>>, vals |-> values]

\* Keyed data: entry i has key keys[i] and value values[i].
GivenDict(keys, values) == [form |-> "dict", keys |-> keys, vals |-> values]

\* No argument given (target_data = None, outputs = None).
GivenNone == [form |-> "none", keys |-> <<>>, vals |-> <<>>]

NoSlot == "-"

\* _get_data: the first output, over the graph's steps in order, that has
\* the name; NoSlot stands for the ValueError.
get_data(graph, name) ==
    LET outs == Flatten([n \in DOMAIN graph.nodes |-> step_outputs[graph.nodes[n]]])
    IN IF \E i \in DOMAIN outs : DataName(outs[i]) = name
       THEN outs[CHOOSE i \in DOMAIN outs :
                    DataName(outs[i]) = name
                    /\ \A j \in 1..(i - 1) : DataName(outs[j]) # name]
       ELSE NoSlot

\* A key resolved to its slot: a Data passes as it is, a name is looked up.
ResolveKey(graph, key) == IF key.by = "data" THEN key.slot ELSE get_data(graph, key.name)

\* _normalize_dict
normalize_dict(graph, given) ==
    LET slots == [i \in DOMAIN given.keys |-> ResolveKey(graph, given.keys[i])]
    IN IF Contains(slots, NoSlot)
       THEN [err |-> "UnknownDataName", keys |-> <<>>, val |-> EmptyDict]
       ELSE [err |-> "none",
             keys |-> Distinct(slots),
             val |-> DictOf(slots, given.vals)]

\* _normalize_list; listify(None) is [None].
normalize_list(given, dataobjs, expand_none) ==
    LET listed == IF given.form = "none" THEN <<NoneVal>> ELSE given.vals
        data_list == IF Len(listed) = 1 /\ listed[1] = NoneVal /\ expand_none
                     THEN [i \in DOMAIN dataobjs |-> NoneVal]
                     ELSE listed
    IN IF Len(data_list) # Len(dataobjs)
       THEN [err |-> "ArityMismatch", keys |-> <<>>, val |-> EmptyDict]
       ELSE [err |-> "none", keys |-> Distinct(dataobjs), val |-> DictOf(dataobjs, data_list)]

\* _normalize_given_data
normalize_given_data(mdl, given, kind) ==
    IF given.form = "dict" THEN normalize_dict(mdl.graph, given)
    ELSE normalize_list(given,
                        IF kind = "input" THEN mdl.inputs ELSE mdl.outputs,
                        kind = "target")

\* _normalize_required_outputs
normalize_required_outputs(mdl, given) ==
    IF given.form = "none" THEN [err |-> "none", outputs |-> mdl.outputs]
    ELSE LET slots == [i \in DOMAIN given.keys |-> ResolveKey(mdl.graph, given.keys[i])]
         IN IF Contains(slots, NoSlot)
            THEN [err |-> "UnknownDataName", outputs |-> <<>>]
            ELSE [err |-> "none", outputs |-> slots]

(***************************************************************************)
(* The execution loops of fit and predict.  The state of a running call is *)
(* its cache, the steps' training state, the error that ended it and a log *)
(* of what it did: which step's inputs it gathered (with the slots the     *)
(* cache held then) and which operation of which step it invoked.          *)
(***************************************************************************)
Event(ev, step, Xs, ys, cache) ==
    [ev |-> ev, step |-> step, Xs |-> Xs, ys |-> ys, cached |-> DOMAIN cache]

\* "Xs = [cache[i] for i in step.inputs]" needs every input slot cached.
CanGather(step, cache) == \A i \in DOMAIN step_inputs[step] : step_inputs[step][i] \in DOMAIN cache

\* Every array of the cache, in the creation order of the slots.
GatherWholeCache(step, cache) ==
    LET held == SelectSeq(AllSlots, LAMBDA slot : slot \in DOMAIN cache)
    IN [i \in DOMAIN held |-> cache[held[i]]]

\* "Xs = [cache[i] for i in step.inputs]"
Gather(step, cache) == [i \in DOMAIN step_inputs[step] |-> cache[step_inputs[step][i]]]

\* One target per output of the step, None where the target data have none.
TargetsWithPlaceholders(step, target_data) ==
    [k \in DOMAIN step_outputs[step] |->
        IF step_outputs[step][k] \in DOMAIN target_data
        THEN target_data[step_outputs[step][k]] ELSE NoneVal]

\* "ys = [target_data[o] for o in step.outputs
\*        if o in target_data and target_data[o] is not None]"
Targets(step, target_data) ==
    LET kept == SelectSeq(step_outputs[step],
                    LAMBDA o : o \in DOMAIN target_data /\ target_data[o] # NoneVal)
    IN [k \in DOMAIN kept |-> target_data[kept[k]]]

\* "if hasattr(step, 'fit'): ...; step.fit(*Xs, *ys)"
fit_step(step, Xs, target_data, run) ==
    IF "fit" \in caps[step]
    THEN [run EXCEPT !.log = Append(@, Event("fit", step, Xs, Targets(step, target_data), run.cache)),
                     !.trained[step] = @ + 1]
    ELSE run

\* Only the first output of the step is stored.
StoreFirstOutput(step, op, Xs, run) ==
    [run EXCEPT !.log = Append(@, Event(op, step, Xs, <<>>, run.cache)),
                !.cache = Update(@, DictOf(<<step_outputs[step][1]>>,
                                           StepResult(step, op, run.trained[step], Xs)))]

\* "cache.update(zip(step.outputs, listify(output_data)))"
StoreOutputs(step, op, Xs, run) ==
    [run EXCEPT !.log = Append(@, Event(op, step, Xs, <<>>, run.cache)),
                !.cache = Update(@, DictOf(step_outputs[step],
                                           StepResult(step, op, run.trained[step], Xs)))]

\* _compute_step training the step as it computes.
compute_step_training(step, Xs, run) ==
    IF "predict" \in caps[step]
    THEN StoreOutputs(step, "predict", Xs, [run EXCEPT !.trained[step] = @ + 1])
    ELSE IF "transform" \in caps[step]
    THEN StoreOutputs(step, "transform", Xs, [run EXCEPT !.trained[step] = @ + 1])
    ELSE [run EXCEPT !.err = "UncomputableStep"]

\* _compute_step looking for transform before predict.
compute_step_transform_first(step, Xs, run) ==
    IF "transform" \in caps[step] THEN StoreOutputs(step, "transform", Xs, run)
    ELSE IF "predict" \in caps[step] THEN StoreOutputs(step, "predict", Xs, run)
    ELSE [run EXCEPT !.err = "UncomputableStep"]

\* Model._compute_step
compute_step(step, Xs, run) ==
    IF "predict" \in caps[step] THEN StoreOutputs(step, "predict", Xs, run)
    ELSE IF "transform" \in caps[step] THEN StoreOutputs(step, "transform", Xs, run)
    ELSE [run EXCEPT !.err = "UncomputableStep"]

\* An iteration that computes the step before it trains it.
RunStepComputeFirst(step, kind, target_data, run) ==
    LET gathered == [run EXCEPT !.log = Append(@, Event("gather", step, <<>>, <<>>, run.cache))]
    IN IF ~CanGather(step, run.cache) THEN [gathered EXCEPT !.err = "KeyError"]
       ELSE IF kind = "fit"
       THEN fit_step(step, Gather(step, run.cache), target_data,
                     compute_step(step, Gather(step, run.cache), gathered))
       ELSE compute_step(step, Gather(step, run.cache), gathered)

\* One iteration of "for step in steps:" of fit (kind "fit") or predict.
RunStep(step, kind, target_data, run) ==
    LET gathered == [run EXCEPT !.log = Append(@, Event("gather", step, <<>>, <<>>, run.cache))]
    IN IF ~CanGather(step, run.cache) THEN [gathered EXCEPT !.err = "KeyError"]
       ELSE IF kind = "fit"
       THEN compute_step(step, Gather(step, run.cache),
                         fit_step(step, Gather(step, run.cache), target_data, gathered))
       ELSE compute_step(step, Gather(step, run.cache), gathered)

RECURSIVE RunSteps(_, _, _, _, _)
RunSteps(steps, i, kind, target_data, run) ==
    IF i > Len(steps) \/ run.err # "none" THEN run
    ELSE RunSteps(steps, i + 1, kind, target_data, RunStep(steps[i], kind, target_data, run))

\* The cache a call starts with: "cache = dict()", whatever an earlier call
\* left in its own.
NewCache(last_cache) == EmptyDict

\* What an invocation did.  given / target / req are the arguments as
\* passed; supplied, data, target_data and outputs their normalised forms; resolved tells
\* that _get_required_steps returned; result is the list output_data
\* (returned bare when it has one element).
NoCall ==
    [op |-> "none", given |-> GivenNone, target |-> GivenNone, req |-> GivenNone,
     err |-> "none", names |-> <<>>, warned |-> <<>>, resolved |-> FALSE,
     steps |-> <<>>, found |-> {}, required |-> {}, supplied |-> <<>>,
     data |-> EmptyDict, outputs |-> <<>>, log |-> <<>>, cache |-> EmptyDict,
     result |-> <<>>, unwrapped |-> FALSE, trained |-> EmptyDict,
     target_data |-> EmptyDict]

\* The call ends by raising err.
Failed(record, err) == [record EXCEPT !.err = err]

\* The call record after _get_required_steps(self._graph, inputs, outputs).
Resolve(mdl, base, input_data, outputs) ==
    LET res == get_required_steps(mdl.graph, mdl.order, input_data.keys, outputs)
    IN [base EXCEPT !.supplied = input_data.keys, !.data = input_data.val,
                    !.outputs = outputs, !.err = res.err, !.names = res.names,
                    !.warned = res.warned, !.found = res.found,
                    !.required = res.required, !.steps = res.steps,
                    !.resolved = (res.err = "none")]

\* "cache.update(input_data)" and the loop over the resolved steps.
Execute(kind, target_data, last_cache, resolved) ==
    LET run == RunSteps(resolved.steps, 1, kind, target_data,
                        [cache |-> Update(NewCache(last_cache), resolved.data),
                         log |-> <<>>, trained |-> resolved.trained, err |-> "none"])
    IN [resolved EXCEPT !.log = run.log, !.cache = run.cache,
                        !.trained = run.trained, !.err = run.err]

\* "output_data = [cache[o] for o in outputs]" and the return.
ReadOutputs(ran) ==
    IF \E i \in DOMAIN ran.outputs : ran.outputs[i] \notin DOMAIN ran.cache
    THEN Failed(ran, "KeyError")
    ELSE [ran EXCEPT !.result = [i \in DOMAIN ran.outputs |-> ran.cache[ran.outputs[i]]],
                     !.unwrapped = (Len(ran.outputs) = 1)]

\* predict from the resolution on, for normalised input data and outputs.
PredictNormalized(mdl, last_cache, base, input_data, outputs) ==
    LET resolved == Resolve(mdl, base, input_data, outputs)
        ran == Execute("predict", EmptyDict, last_cache, resolved)
    IN IF resolved.err # "none" THEN resolved
       ELSE IF ran.err # "none" THEN ran
       ELSE ReadOutputs(ran)

\* predict looking the requested names up only after the steps of the
\* declared outputs have run.
predict_names_last(mdl, trained, last_cache, input_given, outputs_given) ==
    LET base == [NoCall EXCEPT !.op = "predict", !.given = input_given,
                               !.req = outputs_given, !.trained = trained]
        input_data == normalize_given_data(mdl, input_given, "input")
        outputs == normalize_required_outputs(mdl, outputs_given)
    IN IF input_data.err # "none" THEN Failed(base, input_data.err)
       ELSE IF outputs.err # "none"
       THEN Failed(PredictNormalized(mdl, last_cache, base, input_data, mdl.outputs),
                   outputs.err)
       ELSE PredictNormalized(mdl, last_cache, base, input_data, outputs.outputs)

\* Model.predict
predict(mdl, trained, last_cache, input_given, outputs_given) ==
    LET base == [NoCall EXCEPT !.op = "predict", !.given = input_given,
                               !.req = outputs_given, !.trained = trained]
        input_data == normalize_given_data(mdl, input_given, "input")
        outputs == normalize_required_outputs(mdl, outputs_given)
    IN IF input_data.err # "none" THEN Failed(base, input_data.err)
       ELSE IF outputs.err # "none" THEN Failed(base, outputs.err)
       ELSE PredictNormalized(mdl, last_cache, base, input_data, outputs.outputs)

\* fit from the resolution on, for normalised input and target data and
\* the desired outputs of the resolution.
FitNormalized(mdl, last_cache, base, input_data, target_data, outputs) ==
    LET resolved == Resolve(mdl, [base EXCEPT !.target_data = target_data.val],
                            input_data, outputs)
    IN IF resolved.err # "none" THEN resolved
       ELSE Execute("fit", target_data.val, last_cache, resolved)

\* fit resolving the steps of the declared outputs, whatever the keys of the
\* target data.
fit_declared_outputs(mdl, trained, last_cache, input_given, target_given) ==
    LET base == [NoCall EXCEPT !.op = "fit", !.given = input_given,
                               !.target = target_given, !.trained = trained]
        input_data == normalize_given_data(mdl, input_given, "input")
        target_data == normalize_given_data(mdl, target_given, "target")
    IN IF input_data.err # "none" THEN Failed(base, input_data.err)
       ELSE IF target_data.err # "none" THEN Failed(base, target_data.err)
       ELSE FitNormalized(mdl, last_cache, base, input_data, target_data, mdl.outputs)

\* Model.fit
fit(mdl, trained, last_cache, input_given, target_given) ==
    LET base == [NoCall EXCEPT !.op = "fit", !.given = input_given,
                               !.target = target_given, !.trained = trained]
        input_data == normalize_given_data(mdl, input_given, "input")
        target_data == normalize_given_data(mdl, target_given, "target")
    IN IF input_data.err # "none" THEN Failed(base, input_data.err)
       ELSE IF target_data.err # "none" THEN Failed(base, target_data.err)
       ELSE FitNormalized(mdl, last_cache, base, input_data, target_data, target_data.keys)

(***************************************************************************)
(* The constructor.                                                        *)
(***************************************************************************)
NoModel == [inputs |-> <<>>, outputs |-> <<>>, graph |-> EmptyGraph, order |-> <<>>,
            steps |-> <<>>]

\* Model.__init__ with all_steps_sorted the answer of graph.topological_sort().
init(inputs, outputs, all_steps_sorted) ==
    LET built == build_graph(outputs)
        res == get_required_steps(built.graph, all_steps_sorted, inputs, outputs)
        base == [NoCall EXCEPT !.op = "init", !.supplied = inputs, !.outputs = outputs]
    IN IF built.err # "none"
       THEN [model |-> NoModel, call |-> [base EXCEPT !.err = built.err, !.names = built.names]]
       ELSE [model |-> [inputs |-> inputs, outputs |-> outputs, graph |-> built.graph,
                        order |-> all_steps_sorted, steps |-> res.steps],
             call |-> [base EXCEPT !.err = res.err, !.names = res.names,
                                   !.warned = res.warned, !.found = res.found,
                                   !.required = res.required, !.steps = res.steps,
                                   !.resolved = (res.err = "none")]]

\* What graph.topological_sort() may answer for the graph of these outputs.
SortAnswers(outputs) ==
    LET built == build_graph(outputs)
    IN IF built.err # "none" THEN {<<>>}
       ELSE IF TopologicalOrders(built.graph) = {} THEN {<<"cyclic">>}
       ELSE TopologicalOrders(built.graph)

(***************************************************************************)
(* What callers pass.                                                      *)
(***************************************************************************)
Vals == 0..MaxVal

\* The slots of set S in creation order.
InOrder(S) == OrderedBy(AllSlots, S)

\* One slot, two slots next to each other in creation order, or the last
\* two slots reversed.
SlotLists ==
    {<<AllSlots[i]>> : i \in DOMAIN AllSlots}
    \cup {<<AllSlots[i], AllSlots[i + 1]>> : i \in 1..(Len(AllSlots) - 1)}
    \cup {<<AllSlots[Len(AllSlots)], AllSlots[Len(AllSlots) - 1]>>}

\* One slot, or the last two slots in either order.
ShortSlotLists ==
    {<<AllSlots[i]>> : i \in DOMAIN AllSlots}
    \cup {<<AllSlots[Len(AllSlots) - 1], AllSlots[Len(AllSlots)]>>,
          <<AllSlots[Len(AllSlots)], AllSlots[Len(AllSlots) - 1]>>}

\* Declared inputs: any of the first two slots created, none of them twice.
DeclaredInputs == {InOrder(S) : S \in SUBSET {AllSlots[1], AllSlots[2]}}

DeclaredOutputs == SlotLists

Keys(style, slots) ==
    [i \in DOMAIN slots |-> IF style = "data" THEN DataKey(slots[i])
                            ELSE NameKey(DataName(slots[i]))]

Payloads(n, v) == [i \in 1..n |-> InVal(i, v)]

\* Input data by position or by name: a dictionary keyed by the names of
\* the declared inputs, or by a name no slot has, or a list with as many
\* arrays as the model has inputs, or one more.
DeclaredGivens ==
    {GivenDict(Keys("name", model.inputs), Payloads(Len(model.inputs), 0)),
     GivenDict(<<NameKey(UnknownName)>>, Payloads(1, 0)),
     GivenList(Payloads(Len(model.inputs), 0)),
     GivenList(Payloads(Len(model.inputs) + 1, 0))}

\* Input data keyed by up to two Data.
InputDicts ==
    {GivenDict(Keys("data", InOrder(S)), Payloads(Cardinality(S), 0)) :
        S \in {T \in SUBSET Slots : Cardinality(T) <= 2}}

\* Before any training a caller passes any of these; once trained, the
\* declared inputs.
InputGivens == IF nfits = 0 THEN InputDicts \cup DeclaredGivens ELSE DeclaredGivens

\* Requested outputs: none given, Data, or names.
Requests ==
    {GivenNone}
    \cup {GivenDict(Keys("data", q), <<>>) : q \in ShortSlotLists}
    \cup {GivenDict(Keys("name", <<AllSlots[Len(AllSlots)]>>), <<>>),
          GivenDict(<<NameKey(UnknownName)>>, <<>>)}

\* Target data: none given, a list with one array per declared output (or
\* one too many), or a dictionary keyed by Data whose first value may be None.
TargetGivens ==
    {GivenNone,
     GivenList(Payloads(Len(model.outputs), 1)),
     GivenList(Payloads(Len(model.outputs) + 1, 1))}
    \cup {GivenDict(Keys("data", q), Payloads(Len(q), 1)) : q \in ShortSlotLists}
    \cup {GivenDict(Keys("data", q), [Payloads(Len(q), 1) EXCEPT ![1] = NoneVal]) :
            q \in ShortSlotLists \ {<<AllSlots[i]>> : i \in 1..(Len(AllSlots) - 1)}}

\* The input data of a finished predict call changed where that call did
\* not look: extra keys dropped, or one more Data key added, or the arrays
\* of the unused keys replaced.
Variants(done) ==
    LET used == {i \in DOMAIN done.given.keys :
                    ResolveKey(model.graph, done.given.keys[i]) \in done.found}
        keep == SelectSeq([i \in DOMAIN done.given.keys |-> i], LAMBDA i : i \in used)
        kept == GivenDict([k \in DOMAIN keep |-> done.given.keys[keep[k]]],
                          [k \in DOMAIN keep |-> done.given.vals[keep[k]]])
    IN {done.given, kept}
       \cup {GivenDict(Append(kept.keys, DataKey(slot)), Append(kept.vals, InVal(9, MaxVal))) :
                slot \in Slots \ Range(done.supplied)}
       \cup {GivenDict(done.given.keys,
                       [i \in DOMAIN done.given.vals |->
                            IF i \in used THEN done.given.vals[i] ELSE InVal(9, v)]) :
                v \in Vals}

(***************************************************************************)
(* Actions.                                                                *)
(***************************************************************************)
Init ==
    \E shape \in Shapes :
        /\ step_inputs = shape.ins
        /\ step_outputs = shape.outs
        /\ step_name \in Namings(shape)
        /\ caps = shape.caps
        /\ fitted = [s \in StepsOf(shape) |-> 0]
        /\ nfits = 0
        /\ pc = "new"
        /\ model = NoModel
        /\ call = NoCall
        /\ prev = NoCall

\* The constructor returns the model, or raises.
Constructed(made) ==
    /\ model' = made.model
    /\ call' = made.call
    /\ pc' = IF made.call.err = "none" THEN "idle" ELSE "failed"

\* fit or predict returns or raises: the steps keep what training they got.
Called(done) ==
    /\ call' = done
    /\ fitted' = done.trained

\* Model(inputs, outputs)
Construct ==
    /\ pc = "new"
    /\ \E inputs \in DeclaredInputs, outputs \in DeclaredOutputs :
         \E sorted \in SortAnswers(outputs) : Constructed(init(inputs, outputs, sorted))
    /\ UNCHANGED <<step_inputs, step_outputs, step_name, caps, fitted, nfits, prev>>

\* model.predict(input_data, outputs)
Predict ==
    /\ pc = "idle"
    /\ \E given \in InputGivens, req \in Requests :
         Called(predict(model, fitted, call.cache, given, req))
    /\ pc' = "done"
    /\ prev' = NoCall
    /\ UNCHANGED <<step_inputs, step_outputs, step_name, caps, nfits, model>>

\* A second model.predict for the same outputs, right after a predict that
\* returned, with the same input data or a variant of it.
PredictAgain ==
    /\ pc = "done"
    /\ call.op = "predict"
    /\ call.err = "none"
    /\ call.given.form = "dict"
    /\ prev = NoCall
    /\ \E given \in Variants(call) :
         Called(predict(model, fitted, call.cache, given, call.req))
    /\ prev' = call
    /\ UNCHANGED <<step_inputs, step_outputs, step_name, caps, nfits, pc, model>>

\* model.fit(input_data, target_data)
Fit ==
    /\ pc = "idle"
    /\ nfits < MaxFits
    /\ \E given \in InputGivens, target \in TargetGivens :
         Called(fit(model, fitted, call.cache, given, target))
    /\ nfits' = nfits + 1
    /\ pc' = "done"
    /\ prev' = NoCall
    /\ UNCHANGED <<step_inputs, step_outputs, step_name, caps, model>>

\* The caller is done with what the call returned or raised.
Return ==
    /\ pc = "done"
    /\ pc' = "idle"
    /\ call' = NoCall
    /\ prev' = NoCall
    /\ UNCHANGED <<step_inputs, step_outputs, step_name, caps, fitted, nfits, model>>

Next == Construct \/ Predict \/ PredictAgain \/ Fit \/ Return

Spec == Init /\ [][Next]_vars

(***************************************************************************)
(* The step structure read on its own terms, for stating the properties.   *)
(***************************************************************************)
\* The slots a demand for the slots of N leads to when the slots of
\* supplied need no producer: N, the inputs of the producers of its
\* unsupplied slots, and so on.
RECURSIVE NeededFrom(_, _)
NeededFrom(N, supplied) ==
    LET more == N \cup UNION {Range(step_inputs[Producer(slot)]) : slot \in N \ supplied}
    IN IF more = N THEN N ELSE NeededFrom(more, supplied)

\* The steps reachable backward from the slots of the list outputs.
ReachableSteps(outputs) == {Producer(slot) : slot \in NeededFrom(Range(outputs), {})}

\* The steps a step depends on, directly or not.
Ancestors(step) == ReachableSteps(step_inputs[step])

\* A dependency cycle is reachable backward from outputs.
CyclicFrom(outputs) == \E step \in ReachableSteps(outputs) : step \in Ancestors(step)

\* The names that more than one step reachable from outputs has.
SharedNames(outputs) ==
    {step_name[s] : s \in {r \in ReachableSteps(outputs) :
        \E t \in ReachableSteps(outputs) : t # r /\ step_name[t] = step_name[r]}}

\* The last invocation went through _get_required_steps and that returned.
Resolved == call.op \in {"init", "fit", "predict"} /\ call.resolved

(***************************************************************************)
(* Properties.                                                             *)
(***************************************************************************)
\* C1: the list _get_required_steps returns holds no step twice, and every
\* step of it whose input is produced by another step of the list comes
\* after that step.
C1_TopologicalValidity ==
    Resolved =>
        /\ NoDup(call.steps)
        /\ \A j \in DOMAIN call.steps :
             \A k \in DOMAIN step_inputs[call.steps[j]] :
                LET producer == Producer(step_inputs[call.steps[j]][k])
                IN Contains(call.steps, producer) => IndexOf(call.steps, producer) < j

\* A resolution of the diamond that put C before B, and D last.
C1_Witness ==
    /\ Resolved
    /\ step_inputs = Diamond.ins
    /\ call.steps = <<"C", "B", "D">>

\* C2: when fit or predict gathers the inputs of a step, the cache holds
\* every input slot of that step, so the gathering never fails.
C2_InputsCached ==
    call.op \in {"fit", "predict"} =>
        /\ call.err # "KeyError"
        /\ \A n \in DOMAIN call.log :
             call.log[n].ev = "gather" =>
                Range(step_inputs[call.log[n].step]) \subseteq call.log[n].cached

\* A call gathered the inputs of a step that reads a slot the caller
\* supplied and a slot an earlier step of the call computed.
C2_Witness ==
    /\ call.op \in {"fit", "predict"}
    /\ call.err = "none"
    /\ \E n \in DOMAIN call.log :
         /\ call.log[n].ev = "gather"
         /\ \E a, b \in Range(step_inputs[call.log[n].step]) :
              /\ a \in Range(call.supplied)
              /\ b \notin Range(call.supplied)
              /\ Producer(b) \in Range(call.steps)

\* C3: constructing a model whose outputs reach a dependency cycle (and
\* reach no two steps of one name) ends with the CyclicGraph error.
C3_CycleDetected ==
    (call.op = "init" /\ CyclicFrom(call.outputs) /\ SharedNames(call.outputs) = {})
        => call.err = "CyclicGraph"

\* C4: construction ends with the DuplicateStepName error exactly when two
\* steps reachable backward from the declared outputs have one name, the
\* error lists each shared name once, and fit and predict never raise it.
C4_DuplicateNamesReported ==
    /\ call.op = "init" =>
         /\ (call.err = "DuplicateStepName") <=> (SharedNames(call.outputs) # {})
         /\ call.err = "DuplicateStepName" =>
              (NoDup(call.names) /\ Range(call.names) = SharedNames(call.outputs))
    /\ call.op \in {"fit", "predict"} => call.err # "DuplicateStepName"

\* C4 where the declared outputs reach no dependency cycle.
C4_OnAcyclicStructures ==
    (call.op = "init" /\ CyclicFrom(call.outputs)) \/ C4_DuplicateNamesReported

\* The needed slots that are not supplied and that only a step without
\* inputs produces.
OmittedSlots(outputs, supplied) ==
    {slot \in NeededFrom(Range(outputs), Range(supplied)) \ Range(supplied) :
        step_inputs[Producer(slot)] = <<>>}

\* The last resolution came to its check of the missing inputs: the graph
\* was built, the caller's data were understood, the traversal returned and
\* stayed within the model's graph.
CameToMissingCheck ==
    /\ call.op \in {"init", "fit", "predict"}
    /\ call.err \notin {"RecursionError", "DuplicateStepName", "CyclicGraph",
                        "UnknownDataName", "ArityMismatch", "NodeNotFound"}

\* C5: a resolution that needs slots which are neither supplied nor
\* computable ends with the MissingInput error, and the error names exactly
\* those slots.
C5_MissingInputNamesOmitted ==
    (CameToMissingCheck /\ OmittedSlots(call.outputs, call.supplied) # {}) =>
        /\ call.err = "MissingInput"
        /\ Range(call.names) = OmittedSlots(call.outputs, call.supplied)

\* C5 but for the names: the error is raised exactly when a slot is omitted
\* and names every omitted slot.
C5_MissingInputRaised ==
    CameToMissingCheck =>
        /\ (call.err = "MissingInput") <=> (OmittedSlots(call.outputs, call.supplied) # {})
        /\ call.err = "MissingInput" =>
              OmittedSlots(call.outputs, call.supplied) \subseteq Range(call.names)

\* The errors of the structural checks.
StructuralErrors == {"CyclicGraph", "MissingInput", "UnknownDataName", "ArityMismatch"}

\* C6: a fit or predict call that ends with a structural error has invoked
\* no fit, predict or transform of any step.
C6_NoStepRunsBeforeStructuralError ==
    (call.op \in {"fit", "predict"} /\ call.err \in StructuralErrors) =>
        \A n \in DOMAIN call.log : call.log[n].ev \notin {"fit", "predict", "transform"}

\* A fit call on a model that has steps to run ended with MissingInput.
C6_Witness ==
    /\ call.op = "fit"
    /\ call.err = "MissingInput"
    /\ model.steps # <<>>

\* The traversal of the last resolution returned, so its warnings were issued.
Traversed ==
    /\ call.op \in {"init", "fit", "predict"}
    /\ call.err \notin {"RecursionError", "DuplicateStepName", "CyclicGraph",
                        "UnknownDataName", "ArityMismatch"}

TwoPredicts ==
    /\ prev.op = "predict" /\ prev.err = "none"
    /\ call.op = "predict" /\ call.err = "none"

\* C8: two predict calls for the same outputs that use the same supplied
\* slots and agree on their values return equal values.
C8_UnusedInputsIgnored ==
    (/\ TwoPredicts
     /\ call.outputs = prev.outputs
     /\ call.found = prev.found
     /\ \A slot \in call.found : call.data[slot] = prev.data[slot])
        => call.result = prev.result

\* The second call was given an unused slot the first was not, or another
\* array for one, and a step computed what it returned.
C8_Witness ==
    /\ TwoPredicts
    /\ call.outputs = prev.outputs
    /\ call.found = prev.found
    /\ call.data # prev.data
    /\ call.warned # <<>>
    /\ call.steps # <<>>
    /\ call.result = prev.result

\* C9: a predict call with the input data and the requested outputs of the
\* predict call before it returns what that call returned.
C9_PredictTwiceSame ==
    (/\ prev.op = "predict" /\ prev.err = "none"
     /\ call.op = "predict"
     /\ call.given = prev.given
     /\ call.req = prev.req)
        => /\ call.err = "none"
           /\ call.result = prev.result
           /\ call.unwrapped = prev.unwrapped

\* The same call made twice on a trained model, with steps to run.
C9_Witness ==
    /\ TwoPredicts
    /\ call.given = prev.given
    /\ call.req = prev.req
    /\ nfits > 0
    /\ Len(call.steps) >= 2

\* The operation _compute_step chooses for a step that can compute.
Computes(step) == IF "predict" \in caps[step] THEN "predict" ELSE "transform"

\* The value of a slot when the step functions are evaluated over the
\* structure from the supplied values: the supplied value of a supplied
\* slot, otherwise what the producer computes from the values of its inputs.
RECURSIVE ValueOf(_, _, _)
ValueOf(slot, data, trained) ==
    IF slot \in DOMAIN data THEN data[slot]
    ELSE LET step == Producer(slot)
         IN StepResult(step, Computes(step), trained[step],
                [i \in DOMAIN step_inputs[step] |->
                    ValueOf(step_inputs[step][i], data, trained)])[IndexOf(step_outputs[step], slot)]

\* The place in the log of the operation that computed the outputs of step.
ComputedAt(step) ==
    CHOOSE n \in DOMAIN call.log :
        call.log[n].step = step /\ call.log[n].ev \in {"predict", "transform"}

\* C10: a predict call that returns, returns for each requested slot, in
\* the order requested, the value of evaluating the step functions from the
\* supplied values.
C10_PredictEvaluatesStructure ==
    (call.op = "predict" /\ call.err = "none") =>
        call.result = [i \in DOMAIN call.outputs |->
                          ValueOf(call.outputs[i], call.data, call.trained)]

\* C10 for the calls that run the producer of no supplied slot.
C10_WhenNoSuppliedSlotRecomputed ==
    (\E slot \in Range(call.supplied) : Producer(slot) \in Range(call.steps))
        \/ C10_PredictEvaluatesStructure

\* C10 on the diamond with x supplied and w requested: B and C are computed
\* before D and the call returns D(B(x), C(x)).
C10_Diamond ==
    (/\ step_inputs = Diamond.ins
     /\ call.op = "predict" /\ call.err = "none"
     /\ call.supplied = <<"x">> /\ call.outputs = <<"w">>) =>
        /\ ComputedAt("B") < ComputedAt("D")
        /\ ComputedAt("C") < ComputedAt("D")
        /\ call.result = <<StepResult("D", "predict", call.trained["D"],
                              <<StepResult("B", "transform", call.trained["B"], <<call.data["x"]>>)[1],
                                StepResult("C", "transform", call.trained["C"], <<call.data["x"]>>)[1]>>)[1]>>

\* The steps of which the last call invoked fit, predict or transform.
Executed ==
    {call.log[n].step : n \in {m \in DOMAIN call.log :
        call.log[m].ev \in {"fit", "predict", "transform"}}}

\* The diamond's model of outputs y and z and input x was asked to predict
\* only z from data for x.
DiamondAskedForZ ==
    /\ step_inputs = Diamond.ins
    /\ model.inputs = <<"x">>
    /\ model.outputs = <<"y", "z">>
    /\ call.op = "predict"
    /\ call.supplied = <<"x">>
    /\ call.outputs = <<"z">>

\* C11 as stated: that call executes exactly the steps A and C.
C11_ExecutesAAndC == DiamondAskedForZ => (call.err = "none" /\ Executed = {"A", "C"})

\* C11: that call returns having executed exactly the step C: not B, and
\* not A either, the producer of the supplied x.
C11_ExecutesOnlyC == DiamondAskedForZ => (call.err = "none" /\ Executed = {"C"})

\* The call was made and returned.
C11_Witness == DiamondAskedForZ /\ call.err = "none" /\ call.result # <<>>

\* The steps whose inputs the last call gathered.
Gathered == {call.log[n].step : n \in {m \in DOMAIN call.log : call.log[m].ev = "gather"}}

\* The places in the log where the last call invoked operation ev of step.
EventsOf(step, ev) ==
    {n \in DOMAIN call.log : call.log[n].step = step /\ call.log[n].ev = ev}

\* The targets of step in the normalised target data of the last call: of
\* its outputs in their order, those with an entry that is not None.
SuppliedTargets(step) ==
    LET with_target == SelectSeq(step_outputs[step],
                          LAMBDA o : o \in DOMAIN call.target_data
                                     /\ call.target_data[o] # NoneVal)
    IN [k \in DOMAIN with_target |-> call.target_data[with_target[k]]]

\* C12: a fit call trains each step it executes that has a fit operation
\* once, with the values of the step's inputs in their order and then the
\* supplied targets of its outputs in their order, and trains no other step.
C12_FitArguments ==
    call.op = "fit" =>
        \A step \in Gathered :
            IF "fit" \in caps[step]
            THEN /\ Cardinality(EventsOf(step, "fit")) = 1
                 /\ \A n \in EventsOf(step, "fit") :
                      /\ call.log[n].Xs = [i \in DOMAIN step_inputs[step] |->
                                              call.cache[step_inputs[step][i]]]
                      /\ call.log[n].ys = SuppliedTargets(step)
            ELSE EventsOf(step, "fit") = {}

\* A fit of the diamond trained D with one target and B with none, and a
\* target given as None was left out.
C12_Witness ==
    /\ call.op = "fit"
    /\ call.err = "none"
    /\ step_inputs = Diamond.ins
    /\ \E n \in EventsOf("D", "fit") : Len(call.log[n].ys) = 1
    /\ \E n \in EventsOf("B", "fit") : call.log[n].ys = <<>>
    /\ \E slot \in DOMAIN call.target_data : call.target_data[slot] = NoneVal

\* C13: fit and predict invoke for each step they execute one computing
\* operation, predict when the step has it and otherwise transform; for a
\* step with neither the call ends with UncomputableStep, having written no
\* output of that step to the cache; the error has no other cause.
C13_OneComputingOperation ==
    call.op \in {"fit", "predict"} =>
        /\ \A step \in Gathered :
             IF "predict" \in caps[step]
             THEN /\ Cardinality(EventsOf(step, "predict")) = 1
                  /\ EventsOf(step, "transform") = {}
             ELSE IF "transform" \in caps[step]
             THEN /\ Cardinality(EventsOf(step, "transform")) = 1
                  /\ EventsOf(step, "predict") = {}
             ELSE /\ call.err = "UncomputableStep"
                  /\ EventsOf(step, "predict") \cup EventsOf(step, "transform") = {}
                  /\ \A slot \in Range(step_outputs[step]) :
                       slot \in DOMAIN call.cache => slot \in Range(call.supplied)
        /\ call.err = "UncomputableStep" =>
             \E step \in Gathered : caps[step] \cap {"predict", "transform"} = {}

\* A call computed by predict a step that has transform too, and ended at a
\* step that has neither.
C13_Witness ==
    /\ call.op \in {"fit", "predict"}
    /\ call.err = "UncomputableStep"
    /\ \E step \in Gathered :
         /\ {"predict", "transform"} \subseteq caps[step]
         /\ EventsOf(step, "predict") # {}

\* The least set of steps that holds the producer of every desired slot
\* not supplied and the producer of every input slot, not supplied, of a
\* step it holds.
MinimalSteps(outputs, supplied) ==
    {Producer(slot) : slot \in NeededFrom(Range(outputs), Range(supplied)) \ Range(supplied)}

\* C14: the list _get_required_steps returns holds exactly the steps of
\* that least set.
C14_MinimalStepSet ==
    Resolved => Range(call.steps) = MinimalSteps(call.outputs, call.supplied)

\* A resolution for two desired outputs with a supplied slot in the middle
\* of the structure left a step of the graph out.
C14_Witness ==
    /\ Resolved
    /\ Len(call.outputs) = 2
    /\ Len(call.steps) >= 2
    /\ \E slot \in Range(call.supplied) : step_inputs[Producer(slot)] # <<>>
    /\ \E step \in Range(model.graph.nodes) :
         step_inputs[step] # <<>> /\ step \notin Range(call.steps)

\* C15 as stated: the producer of a supplied slot is never in the list
\* _get_required_steps returns.
C15_ProducerOfSuppliedSkipped ==
    Resolved => \A slot \in Range(call.supplied) : Producer(slot) \notin Range(call.steps)

\* C15: the producer of a supplied slot is in the list exactly when another
\* of its outputs is needed and not supplied.
C15_ProducerOfSuppliedKeptForSibling ==
    Resolved =>
        \A slot \in Range(call.supplied) :
            (Producer(slot) \in Range(call.steps)) <=>
                (\E other \in Range(step_outputs[Producer(slot)]) :
                    /\ other \notin Range(call.supplied)
                    /\ other \in NeededFrom(Range(call.outputs), Range(call.supplied)))

\* A predict call supplied with one output of a step and needing the other
\* executed that step.
C15_Witness ==
    /\ Resolved
    /\ call.op = "predict"
    /\ call.err = "none"
    /\ \E slot \in Range(call.supplied) :
         /\ Len(step_outputs[Producer(slot)]) = 2
         /\ Producer(slot) \in Executed

\* C16: the graph of a constructed model has each step reachable backward
\* from the declared outputs as a node, once, and no other node; it has an
\* edge from P to S exactly when P produces an input slot of its node S.
C16_GraphIsReachableStructure ==
    model # NoModel =>
        /\ NoDup(model.graph.nodes)
        /\ Range(model.graph.nodes) = ReachableSteps(model.outputs)
        /\ model.graph.edges =
             {e \in Steps \X Steps :
                /\ e[2] \in Range(model.graph.nodes)
                /\ \E i \in DOMAIN step_inputs[e[2]] : Producer(step_inputs[e[2]][i]) = e[1]}

\* The graph of a model holds the producer of a declared input and the
\* steps above it, and lacks a step of the structure.
C16_Witness ==
    /\ model # NoModel
    /\ \E slot \in Range(model.inputs) :
         /\ step_inputs[Producer(slot)] # <<>>
         /\ Producer(slot) \in Range(model.graph.nodes)
    /\ Cardinality(model.graph.edges) >= 2
    /\ Range(model.graph.nodes) # Steps

\* The places in the log where the last call computed the outputs of step.
ComputeEventsOf(step) == EventsOf(step, "predict") \cup EventsOf(step, "transform")

\* C17: in a fit call every step executed is trained at most once and
\* computed once (not at all if it can neither predict nor transform, where
\* the call ends); it is trained before it is computed, and both after every
\* executed producer of its inputs was computed.
C17_FitOrder ==
    call.op = "fit" =>
        \A step \in Gathered :
            /\ Cardinality(EventsOf(step, "fit")) <= 1
            /\ Cardinality(ComputeEventsOf(step))
                 = (IF caps[step] \cap {"predict", "transform"} = {} THEN 0 ELSE 1)
            /\ \A n \in EventsOf(step, "fit"), m \in ComputeEventsOf(step) : n < m
            /\ \A i \in DOMAIN step_inputs[step] :
                 LET producer == Producer(step_inputs[step][i])
                 IN producer \in Gathered =>
                      /\ ComputeEventsOf(producer) # {}
                      /\ \A m \in ComputeEventsOf(producer),
                            n \in EventsOf(step, "fit") \cup ComputeEventsOf(step) : m < n

\* A fit call trained a step that reads what two other steps computed in
\* the call, one of them trained too.
C17_Witness ==
    /\ call.op = "fit"
    /\ call.err = "none"
    /\ \E step \in Gathered :
         /\ EventsOf(step, "fit") # {}
         /\ Cardinality({Producer(step_inputs[step][i]) : i \in DOMAIN step_inputs[step]}
                        \cap Gathered) = 2
         /\ \E i \in DOMAIN step_inputs[step] :
              EventsOf(Producer(step_inputs[step][i]), "fit") # {}

\* Sequence part is what is left of sequence whole when the entries that
\* part lacks are struck out.
SubSequence(part, whole) == part = SelectSeq(whole, LAMBDA x : x \in Range(part))

\* fit or predict was called and resolved its steps.
CallResolved == call.op \in {"fit", "predict"} /\ call.resolved

\* C18 as stated: the steps resolved for a call are a sub-sequence of the
\* list of steps resolved at construction.
C18_WithinConstructionList == CallResolved => SubSequence(call.steps, model.steps)

\* C18: the steps resolved for a call are a sub-sequence of the topological
\* order of the steps of the model's graph.
C18_WithinGraphOrder ==
    CallResolved =>
        /\ Range(call.steps) \subseteq Range(model.graph.nodes)
        /\ SubSequence(call.steps, model.order)

\* A call supplied with fewer slots than declared resolved a step that the
\* list of the construction lacks.
C18_Witness ==
    /\ CallResolved
    /\ call.err = "none"
    /\ Len(call.supplied) < Len(model.inputs)
    /\ \E step \in Range(call.steps) : step \notin Range(model.steps)

\* C19: in fit and predict the cache keeps the caller's value under every
\* supplied slot: each operation of a step that reads a supplied slot is
\* passed the caller's value, and predict returns the caller's value for a
\* requested slot that was supplied.
C19_SuppliedEntriesKept ==
    CallResolved =>
        /\ \A slot \in Range(call.supplied) : call.cache[slot] = call.data[slot]
        /\ \A n \in DOMAIN call.log :
             call.log[n].ev \in {"fit", "predict", "transform"} =>
                \A i \in DOMAIN step_inputs[call.log[n].step] :
                    step_inputs[call.log[n].step][i] \in Range(call.supplied) =>
                        call.log[n].Xs[i] = call.data[step_inputs[call.log[n].step][i]]
        /\ (call.op = "predict" /\ call.err = "none") =>
             \A i \in DOMAIN call.outputs :
                call.outputs[i] \in Range(call.supplied) =>
                    call.result[i] = call.data[call.outputs[i]]

\* C19 for the calls that execute the producer of no supplied slot.
C19_WhenNoProducerOfSuppliedRuns ==
    (\E slot \in Range(call.supplied) : Producer(slot) \in Range(call.steps))
        \/ C19_SuppliedEntriesKept

\* The slot a key of the caller's target dictionary stands for.
SlotOfKey(key) ==
    IF key.by = "data" THEN key.slot
    ELSE CHOOSE slot \in Slots : DataName(slot) = key.name

\* The desired outputs of a fit call: the keys of a target dictionary,
\* otherwise the declared outputs.
DesiredOfFit ==
    IF call.target.form = "dict"
    THEN {SlotOfKey(call.target.keys[i]) : i \in DOMAIN call.target.keys}
    ELSE Range(model.outputs)

\* C20: a fit call that returns has executed exactly the steps resolved for
\* its desired outputs, the keys of a target dictionary or else the declared
\* outputs: each of them computed, and trained if it has fit.
C20_FitExecutesStepsOfTargets ==
    (call.op = "fit" /\ call.err = "none") =>
        /\ Range(call.outputs) = DesiredOfFit
        /\ Range(call.steps) = MinimalSteps(call.outputs, call.supplied)
        /\ Gathered = Range(call.steps)
        /\ \A step \in Range(call.steps) :
             /\ ComputeEventsOf(step) # {}
             /\ "fit" \in caps[step] => EventsOf(step, "fit") # {}

\* A fit call with a target dictionary keyed by one slot left alone a step
\* the declared outputs need.
C20_Witness ==
    /\ call.op = "fit"
    /\ call.err = "none"
    /\ call.target.form = "dict"
    /\ Gathered # {}
    /\ \E step \in MinimalSteps(model.outputs, call.supplied) : step \notin Gathered

====
